---------------------------- MODULE Spec2Model ----------------------------
(***************************************************************************)
(* A model of signatory's signature transform front end                    *)
(* (src/src/signatory/signature_module.py): the public function signature, *)
(* the batch trick that splits a long path into chunks and recombines the  *)
(* chunk signatures, the autograd pairing of _SignatureFunction.forward    *)
(* and backward, signature_combine / multi_signature_combine and           *)
(* extract_signature_term.                                                 *)
(*                                                                         *)
(* Tensors are nested sequences, indexed from 1 in the order of the        *)
(* tensor's dimensions.  A signature to depth D over C channels is a flat  *)
(* sequence of signature_channels(C, D) integers, the degree-1 block       *)
(* first, each block row-major, as extract_signature_term slices it.  To   *)
(* stay in the integers the degree-k block is stored multiplied by k!, so  *)
(* the exponential of an increment v has the degree-k block v (x) ... (x) v *)
(* and the product carries binomial coefficients.                          *)
(***************************************************************************)
EXTENDS Integers, Sequences, FiniteSets, TLC

\* ------------------------------------------------------------------ bounds
MaxLen == 9
MaxWalk == 10
MaxChen == 6
MaxBatch == 2
MaxBackward == 3
MaxChannels == 3
MaxTermDepth == 4

\* --------------------------------------------------------- program constants
CudaThreshold == 512
MinChunkLength == 3

\* ------------------------------------------------------------ small helpers
None == [kind |-> "None"]

Min2(a, b) == IF a <= b THEN a ELSE b

RECURSIVE Pow(_, _)
Pow(c, k) == IF k <= 0 THEN 1 ELSE c * Pow(c, k - 1)

RECURSIVE SumFn(_, _, _)
SumFn(f, lo, hi) == IF lo > hi THEN 0 ELSE f[lo] + SumFn(f, lo + 1, hi)

RECURSIVE Binom(_, _)
Binom(n, k) == IF k = 0 \/ k = n THEN 1 ELSE Binom(n - 1, k - 1) + Binom(n - 1, k)

\* A sequence given by a rule, as the explicit tuple of its entries.
Tup(f) == f \o << >>

Reverse(s) == Tup([i \in 1..Len(s) |-> s[Len(s) + 1 - i]])

RECURSIVE Flatten(_)
Flatten(ss) == IF ss = << >> THEN << >> ELSE Head(ss) \o Flatten(Tail(ss))

\* tensor.transpose(0, 1) of a tensor with at least two dimensions
Transpose01(t) == Tup([i \in 1..Len(t[1]) |-> Tup([b \in 1..Len(t) |-> t[b][i]])])

\* ------------------------------------------------------ the tensor algebra
\* channels + channels^2 + ... + channels^depth
signature_channels(channels, depth) ==
    SumFn([k \in 1..depth |-> Pow(channels, k)], 1, depth)

\* The degree of the block that flat position p (from 1) lies in.
DegreeOf(p, C, D) == CHOOSE k \in 1..D :
    signature_channels(C, k - 1) < p /\ p <= signature_channels(C, k)

\* Entry idx (from 0) of the degree-k block of s; the degree-0 block is the
\* implicit scalar 1.
Block(s, C, k, idx) == IF k = 0 THEN 1 ELSE s[signature_channels(C, k - 1) + idx + 1]

\* The unit of the algebra: all stored blocks zero.
UnitSig(C, D) == Tup([p \in 1..signature_channels(C, D) |-> 0])

\* The truncated exponential of one increment v: degree-k block v^(x)k / k!,
\* stored times k!.
RECURSIVE TensorPower(_, _, _, _)
TensorPower(v, C, k, idx) ==
    IF k = 0 THEN 1
    ELSE v[(idx \div Pow(C, k - 1)) + 1] * TensorPower(v, C, k - 1, idx % Pow(C, k - 1))

RestrictedExp(v, C, D) ==
    Tup([p \in 1..signature_channels(C, D) |->
        LET k == DegreeOf(p, C, D)
        IN  TensorPower(v, C, k, p - 1 - signature_channels(C, k - 1))])

\* c_k = sum_{i=0..k} a_i (x) b_{k-i}, degree by degree.
TensorMul(a, b, C, D) ==
    Tup([p \in 1..signature_channels(C, D) |->
        LET k   == DegreeOf(p, C, D)
            idx == p - 1 - signature_channels(C, k - 1)
        IN  SumFn([i \in 0..k |->
                     Binom(k, i)
                       * Block(a, C, i, idx \div Pow(C, k - i))
                       * Block(b, C, k - i, idx % Pow(C, k - i))],
                  0, k)])

\* Left-to-right fold of TensorMul over a list of signatures.
RECURSIVE CombineFold(_, _, _, _)
CombineFold(acc, sigs, C, D) ==
    IF sigs = << >> THEN acc
    ELSE CombineFold(TensorMul(acc, Head(sigs), C, D), Tail(sigs), C, D)

\* --------------------------------------------- basepoint and initial arguments
\* A basepoint argument is [kind |-> "False"], [kind |-> "True"] or
\* [kind |-> "Tensor", val |-> a (batch, channel) tensor]; an initial argument
\* is None or [kind |-> "Tensor", val |-> a (batch, signature channel) tensor].
IsTensor(x) == x.kind = "Tensor"

\* backend.interpret_basepoint: the flag "a basepoint is present" and its value.
interpret_basepoint(basepoint, batch_size, channel_size) ==
    IF basepoint.kind = "Tensor" THEN [present |-> TRUE, value |-> basepoint.val]
    ELSE IF basepoint.kind = "True"
         THEN [present |-> TRUE,
               value |-> Tup([b \in 1..batch_size |-> Tup([c \in 1..channel_size |-> 0])])]
         ELSE [present |-> FALSE, value |-> << >>]

\* backend.interpret_initial
interpret_initial(initial) ==
    IF initial.kind = "Tensor" THEN [present |-> TRUE, value |-> initial.val]
    ELSE [present |-> FALSE, value |-> << >>]

\* ---------------------------------------------------- the forward computation
Increments(pts) ==
    Tup([i \in 1..(Len(pts) - 1) |->
           Tup([c \in 1..Len(pts[i]) |-> pts[i + 1][c] - pts[i][c]])])

RECURSIVE FoldIncrements(_, _, _, _)
FoldIncrements(acc, incs, C, D) ==
    IF incs = << >> THEN acc
    ELSE FoldIncrements(TensorMul(acc, RestrictedExp(Head(incs), C, D), C, D),
                        Tail(incs), C, D)

\* initial joins the product on the side of the path it continues: on the
\* left, or on the right for the inverse signature.
WithInitial(sig, C, D, inverse, initial, initial_row) ==
    IF ~initial THEN sig
    ELSE TensorMul(IF inverse THEN sig ELSE initial_row,
                   IF inverse THEN initial_row ELSE sig, C, D)

\* The signature of one sequence of points (the basepoint already
\* prepended); the stream is reversed when inverse.
PointsSignature(pts, C, D, inverse, initial, initial_row) ==
    WithInitial(FoldIncrements(UnitSig(C, D),
                               Increments(IF inverse THEN Reverse(pts) ELSE pts), C, D),
                C, D, inverse, initial, initial_row)

\* _impl.signature_forward on a (stream, batch, channel) path.  The result is
\* (batch, signature channel), or (stream, batch, signature channel) in
\* stream mode, one entry per consumed increment.
signature_forward(path, depth, stream, basepoint, basepoint_value, inverse, initial, initial_value) ==
    LET batch_size == Len(path[1])
        Points(b)  == (IF basepoint THEN << basepoint_value[b] >> ELSE << >>)
                        \o Tup([i \in 1..Len(path) |-> path[i][b]])
        increments == Len(path) - (IF basepoint THEN 0 ELSE 1)
        UpTo(j)    == Tup([b \in 1..batch_size |->
                         PointsSignature(SubSeq(Points(b), 1, j + 1), Len(path[1][1]), depth,
                                         inverse, initial,
                                         IF initial THEN initial_value[b] ELSE << >>)])
    IN  IF stream THEN Tup([j \in 1..increments |-> UpTo(j)]) ELSE UpTo(increments)

\* interpet_forward_args: the provenance flags kept on ctx.
interpet_forward_args(basepoint, initial) ==
    [basepoint_is_tensor |-> IsTensor(basepoint),
     initial_is_tensor   |-> IsTensor(initial)]

\* _SignatureFunction.forward: what apply returns.
SignatureFunction_forward(path, depth, stream, basepoint, inverse, initial) ==
    signature_forward(path, depth, stream,
                      interpret_basepoint(basepoint, Len(path[1]), Len(path[1][1])).present,
                      interpret_basepoint(basepoint, Len(path[1]), Len(path[1][1])).value,
                      inverse,
                      interpret_initial(initial).present,
                      interpret_initial(initial).value)

\* _impl.signature_forward's second output: the increments of the path (the
\* basepoint prepended), negated and in reverse order when inverse.
signature_forward_increments(path, basepoint, basepoint_value, inverse) ==
    LET Points(b) == (IF basepoint THEN << basepoint_value[b] >> ELSE << >>)
                       \o Tup([i \in 1..Len(path) |-> path[i][b]])
    IN  Tup([b \in 1..Len(path[1]) |->
               Increments(IF inverse THEN Reverse(Points(b)) ELSE Points(b))])

\* _SignatureFunction.forward: what it leaves on ctx.  saved is "held" while
\* the tensors given to save_for_backward are there to be read.
SignatureFunction_ctx(path, depth, stream, basepoint, inverse, initial) ==
    [saved |-> "held",
     signature_ |-> SignatureFunction_forward(path, depth, stream, basepoint, inverse, initial),
     path_increments |->
         signature_forward_increments(path,
             interpret_basepoint(basepoint, Len(path[1]), Len(path[1][1])).present,
             interpret_basepoint(basepoint, Len(path[1]), Len(path[1][1])).value,
             inverse),
     depth |-> depth,
     stream |-> stream,
     basepoint |-> interpret_basepoint(basepoint, Len(path[1]), Len(path[1][1])).present,
     inverse |-> inverse,
     initial |-> interpret_initial(initial).present,
     basepoint_is_tensor |-> interpet_forward_args(basepoint, initial).basepoint_is_tensor,
     initial_is_tensor |-> interpet_forward_args(basepoint, initial).initial_is_tensor]

\* The parameters of _SignatureFunction.forward after ctx, in order.
ForwardArguments == << "path", "depth", "stream", "basepoint", "inverse", "initial" >>

\* A gradient tensor, tagged with the argument it is the gradient of.
Grad(wrt) == [kind |-> "Tensor", wrt |-> wrt]

\* What _impl.signature_backward may hand back for the basepoint or the
\* initial: its gradient when that input took part in the forward pass, and
\* either that or nothing when it did not.
ImplGrads(present, wrt) == IF present THEN { Grad(wrt) } ELSE { None, Grad(wrt) }

\* interpret_backward_grad with lines 44-47 left out.
interpret_backward_grad_kept(ctx_, grad_basepoint, grad_initial) ==
    << grad_basepoint, grad_initial >>

\* interpret_backward_grad
interpret_backward_grad(ctx_, grad_basepoint, grad_initial) ==
    << IF ~ctx_.basepoint_is_tensor THEN None ELSE grad_basepoint,
       IF ~ctx_.initial_is_tensor THEN None ELSE grad_initial >>

\* _SignatureFunction.backward, given what _impl.signature_backward computed.
SignatureFunction_backward(ctx_, grad_path, grad_basepoint, grad_initial) ==
    << grad_path, None, None,
       interpret_backward_grad(ctx_, grad_basepoint, grad_initial)[1], None,
       interpret_backward_grad(ctx_, grad_basepoint, grad_initial)[2], None >>

\* ------------------------------------------------------------------ combine
\* _impl.signature_combine_forward: per batch element, the left-to-right
\* product of the list.
signature_combine_forward(sigtensors, input_channels, depth) ==
    Tup([b \in 1..Len(sigtensors[1]) |->
        CombineFold(sigtensors[1][b],
                    Tup([i \in 1..(Len(sigtensors) - 1) |-> sigtensors[i + 1][b]]),
                    input_channels, depth)])

\* multi_signature_combine without the reversal of lines 431-432.
multi_signature_combine_unreversed(sigtensors, input_channels, depth, inverse) ==
    signature_combine_forward(sigtensors, input_channels, depth)

multi_signature_combine(sigtensors, input_channels, depth, inverse) ==
    signature_combine_forward(IF inverse THEN Reverse(sigtensors) ELSE sigtensors,
                              input_channels, depth)

\* signature_combine with its two signatures in the wrong order.
signature_combine_swapped(sigtensor1, sigtensor2, input_channels, depth, inverse) ==
    multi_signature_combine(<< sigtensor2, sigtensor1 >>, input_channels, depth, inverse)

signature_combine(sigtensor1, sigtensor2, input_channels, depth, inverse) ==
    multi_signature_combine(<< sigtensor1, sigtensor2 >>, input_channels, depth, inverse)

\* ---------------------------------------------------------- the batch trick
\* A path argument is [val |-> a (batch, stream, channel) tensor,
\* is_cuda |-> BOOLEAN, requires_grad |-> BOOLEAN]; env gives what the two
\* queries return: [hardware_concurrency |-> Nat, max_parallelism |-> Nat].

\* Python 3's round(float(t) / n), halves to the even neighbour, then int().
RoundDiv(t, n) ==
    LET q == t \div n
        r == t % n
    IN  IF 2 * r < n THEN q
        ELSE IF 2 * r > n THEN q + 1
        ELSE IF q % 2 = 0 THEN q ELSE q + 1

\* The gate with line 104 negated: on the CPU it returns when the path does
\* require grad.
BatchTrickGateUnlessGrad(path, stream, env) ==
    IF stream THEN [go |-> FALSE, why |-> "stream", threshold |-> 0]
    ELSE IF path.is_cuda THEN [go |-> TRUE, why |-> "cuda", threshold |-> CudaThreshold]
    ELSE IF path.requires_grad
         THEN [go |-> FALSE, why |-> "cpu_no_grad", threshold |-> 0]
    ELSE IF env.hardware_concurrency = 0
         THEN [go |-> FALSE, why |-> "no_concurrency", threshold |-> 0]
    ELSE [go |-> TRUE, why |-> "cpu_grad", threshold |-> env.hardware_concurrency]

\* The gate falling back on the GPU's threshold, in place of the return of
\* lines 111-114, when the hardware concurrency is unknown.
BatchTrickGateDefaultThreshold(path, stream, env) ==
    IF stream THEN [go |-> FALSE, why |-> "stream", threshold |-> 0]
    ELSE IF path.is_cuda THEN [go |-> TRUE, why |-> "cuda", threshold |-> CudaThreshold]
    ELSE IF ~path.requires_grad
         THEN [go |-> FALSE, why |-> "cpu_no_grad", threshold |-> 0]
    ELSE [go |-> TRUE, why |-> "cpu_grad",
          threshold |-> IF env.hardware_concurrency = 0 THEN CudaThreshold
                        ELSE env.hardware_concurrency]

\* Lines 91-114: the early returns before the chunk count is computed and
\* the threshold chosen otherwise.
BatchTrickGate(path, stream, env) ==
    IF stream THEN [go |-> FALSE, why |-> "stream", threshold |-> 0]
    ELSE IF path.is_cuda THEN [go |-> TRUE, why |-> "cuda", threshold |-> CudaThreshold]
    ELSE IF ~path.requires_grad
         THEN [go |-> FALSE, why |-> "cpu_no_grad", threshold |-> 0]
    ELSE IF env.hardware_concurrency = 0
         THEN [go |-> FALSE, why |-> "no_concurrency", threshold |-> 0]
    ELSE [go |-> TRUE, why |-> "cpu_grad", threshold |-> env.hardware_concurrency]

\* The chunk count without the utility.max_parallelism() bound of line 120.
BatchTrickMultUncapped(threshold, batch_size, stream_size, env) ==
    Min2(RoundDiv(threshold, batch_size), stream_size \div MinChunkLength)

\* The chunk count with chunks of two points allowed: stream_size / 2 in
\* place of stream_size / 3 at line 120.
BatchTrickMultShortChunks(threshold, batch_size, stream_size, env) ==
    Min2(Min2(RoundDiv(threshold, batch_size), stream_size \div 2),
         env.max_parallelism)

\* Lines 119-120: the number of chunks to split the stream in to.
BatchTrickMult(threshold, batch_size, stream_size, env) ==
    Min2(Min2(RoundDiv(threshold, batch_size), stream_size \div MinChunkLength),
         env.max_parallelism)

\* view(batch, mult, ...) of a tensor whose first dimension is batch * mult
Unflatten(flat, batch_size, mult) ==
    Tup([b \in 1..batch_size |-> Tup([j \in 1..mult |-> flat[(b - 1) * mult + j]])])

\* unbind(dim=-2) of a (batch, mult, ...) tensor
Unbind(t) == Tup([j \in 1..Len(t[1]) |-> Tup([b \in 1..Len(t) |-> t[b][j]])])

\* roll(shifts=-1, dims=-2): the ends rolled the other way.
RollBack1(t) ==
    Tup([b \in 1..Len(t) |-> Tup([j \in 1..Len(t[b]) |-> t[b][(j % Len(t[b])) + 1]])])

\* tensor.roll(shifts=1, dims=-2) of a (batch, mult, channel) tensor
Roll1(t) ==
    Tup([b \in 1..Len(t) |-> Tup([j \in 1..Len(t[b]) |-> t[b][((j - 2) % Len(t[b])) + 1]])])

\* Lines 126-147: the bulk chunks, the remainder and every chunk's basepoint.
BatchTrickSplit(val, mult, basepoint) ==
    LET batch_size   == Len(val)
        stream_size  == Len(val[1])
        channel_size == Len(val[1][1])
        remainder    == stream_size % mult
        reduced_bulk_length == stream_size \div mult
        bulk_length  == stream_size - remainder
        path_bulk    == Tup([b \in 1..batch_size |->
                           Tup([j \in 1..mult |->
                              Tup([k \in 1..reduced_bulk_length |->
                                 val[b][(j - 1) * reduced_bulk_length + k]])])])
        path_remainder ==
            Tup([b \in 1..batch_size |-> SubSeq(val[b], bulk_length + 1, stream_size)])
        rolled       == Roll1([b \in 1..batch_size |->
                                 [j \in 1..mult |-> path_bulk[b][j][reduced_bulk_length]]])
        first(b)     == IF basepoint.kind = "Tensor" THEN basepoint.val[b]
                        ELSE IF basepoint.kind = "True" THEN Tup([c \in 1..channel_size |-> 0])
                        ELSE path_bulk[b][1][1]
        ends         == Tup([b \in 1..batch_size |->
                           Tup([j \in 1..mult |-> IF j = 1 THEN first(b) ELSE rolled[b][j]])])
    IN  [remainder |-> remainder,
         reduced_bulk_length |-> reduced_bulk_length,
         bulk_length |-> bulk_length,
         path_bulk |-> Flatten(path_bulk),
         path_remainder |-> path_remainder,
         basepoint |-> Flatten(ends),
         basepoint_remainder |-> IF remainder # 0
                                 THEN Tup([b \in 1..batch_size |-> rolled[b][1]])
                                 ELSE << >>]

\* The list of lines 150-162 with initial appended after the chunks instead
\* of before them.
BatchTrickChunksInitialLast(split, batch_size, mult, depth, stream, inverse, initial) ==
    Unbind(Unflatten(
            SignatureFunction_forward(Transpose01(split.path_bulk), depth, stream,
                [kind |-> "Tensor", val |-> split.basepoint], inverse, None),
            batch_size, mult))
      \o (IF split.remainder # 0
          THEN << SignatureFunction_forward(Transpose01(split.path_remainder), depth, stream,
                     [kind |-> "Tensor", val |-> split.basepoint_remainder], inverse, None) >>
          ELSE << >>)
      \o (IF IsTensor(initial) THEN << initial.val >> ELSE << >>)

\* Lines 150-162: the list of signatures handed to multi_signature_combine.
\* Both _SignatureFunction.apply calls pass initial = None.
BatchTrickChunks(split, batch_size, mult, depth, stream, inverse, initial) ==
    (IF IsTensor(initial) THEN << initial.val >> ELSE << >>)
      \o Unbind(Unflatten(
            SignatureFunction_forward(Transpose01(split.path_bulk), depth, stream,
                [kind |-> "Tensor", val |-> split.basepoint], inverse, None),
            batch_size, mult))
      \o (IF split.remainder # 0
          THEN << SignatureFunction_forward(Transpose01(split.path_remainder), depth, stream,
                     [kind |-> "Tensor", val |-> split.basepoint_remainder], inverse, None) >>
          ELSE << >>)

NoSplit == [remainder |-> 0, reduced_bulk_length |-> 0, bulk_length |-> 0,
            path_bulk |-> << >>, path_remainder |-> << >>, basepoint |-> << >>,
            basepoint_remainder |-> << >>]

\* The bare return (None) of _signature_batch_trick.
BatchTrickNone(why, mult) ==
    [activated |-> FALSE, why |-> why, mult |-> mult, split |-> NoSplit,
     chunks |-> << >>, calls |-> << >>, result |-> << >>]

\* Line 164: the chunked result; calls lists the _SignatureFunction.apply and
\* combine calls made.
BatchTrickCombine(why, mult, split, chunks, channel_size, depth, inverse) ==
    [activated |-> TRUE, why |-> why, mult |-> mult, split |-> split, chunks |-> chunks,
     calls |-> << "apply" >>
                 \o (IF split.remainder # 0 THEN << "apply" >> ELSE << >>)
                 \o << "combine" >>,
     result |-> multi_signature_combine(chunks, channel_size, depth, inverse)]

\* Lines 126-164, once the chunk count is known to be at least 2.
BatchTrickRun(val, depth, stream, basepoint, inverse, initial, why, mult, split) ==
    BatchTrickCombine(why, mult, split,
                      BatchTrickChunks(split, Len(val), mult, depth, stream, inverse, initial),
                      Len(val[1][1]), depth, inverse)

\* Lines 116-164, once the threshold is chosen.
BatchTrickFrom(val, depth, stream, basepoint, inverse, initial, why, mult) ==
    IF mult < 2 THEN BatchTrickNone("small", mult)
    ELSE BatchTrickRun(val, depth, stream, basepoint, inverse, initial, why, mult,
                       BatchTrickSplit(val, mult, basepoint))

\* _signature_batch_trick, after its gate.
BatchTrickGated(path, depth, stream, basepoint, inverse, initial, env, gate) ==
    IF ~gate.go THEN BatchTrickNone(gate.why, 0)
    ELSE BatchTrickFrom(path.val, depth, stream, basepoint, inverse, initial, gate.why,
                        BatchTrickMult(gate.threshold, Len(path.val), Len(path.val[1]), env))

\* _signature_batch_trick
signature_batch_trick(path, depth, stream, basepoint, inverse, initial, env) ==
    BatchTrickGated(path, depth, stream, basepoint, inverse, initial, env,
                    BatchTrickGate(path, stream, env))

\* ------------------------------------------------------------- signature
\* _impl.signature_checkargs on the (stream, batch, channel) path: TRUE when
\* the arguments pass, FALSE when it raises.
impl_signature_checkargs(path, depth, basepoint, basepoint_value, initial, initial_value) ==
    LET batch_size   == Len(path[1])
        channel_size == Len(path[1][1])
    IN  /\ depth >= 1
        /\ channel_size >= 1
        /\ Len(path) >= (IF basepoint THEN 1 ELSE 2)
        /\ basepoint =>
             /\ Len(basepoint_value) = batch_size
             /\ \A b \in 1..batch_size : Len(basepoint_value[b]) = channel_size
        /\ initial =>
             /\ Len(initial_value) = batch_size
             /\ \A b \in 1..batch_size :
                  Len(initial_value[b]) = signature_channels(channel_size, depth)

signature_checkargs(val, depth, basepoint, initial) ==
    LET path == Transpose01(val)
        bp   == interpret_basepoint(basepoint, Len(path[1]), Len(path[1][1]))
        it   == interpret_initial(initial)
    IN  impl_signature_checkargs(path, depth, bp.present, bp.value, it.present, it.value)

NotCalled == BatchTrickNone("not_called", 0)

\* The warning tested with "basepoint is not a tensor" in place of
\* "basepoint is False".
WarnsUnlessBasepointTensor(basepoint, initial) ==
    initial.kind # "None" /\ basepoint.kind # "Tensor"

\* Line 237: the condition of the warning.
WarnsInitialWithoutBasepoint(basepoint, initial) ==
    initial.kind # "None" /\ basepoint.kind = "False"

\* The events of a call that validates only after the batch trick was tried.
SignatureLogLate(warns, valid, trick) ==
    (IF warns THEN << "warn" >> ELSE << >>)
      \o << "batch_trick" >> \o trick.calls
      \o << "checkargs" >>
      \o (IF valid /\ ~trick.activated THEN << "apply" >> ELSE << >>)

\* The events of one call of signature, in program order.
SignatureLog(warns, valid, trick) ==
    (IF warns THEN << "warn" >> ELSE << >>)
      \o << "checkargs" >>
      \o (IF valid
          THEN << "batch_trick" >> \o trick.calls
                 \o (IF trick.activated THEN << >> ELSE << "apply" >>)
          ELSE << >>)

\* The result without the transpose of lines 251-253.
SignatureResultNoTranspose(stream, trick, direct) ==
    IF trick.activated THEN trick.result ELSE direct

\* Lines 246-254: the result, from the batch trick if it gave one and from
\* the direct call otherwise, transposed in stream mode.
SignatureResult(stream, trick, direct) ==
    IF stream THEN Transpose01(IF trick.activated THEN trick.result ELSE direct)
    ELSE IF trick.activated THEN trick.result ELSE direct

\* What one call of signature does and returns, given what its steps
\* evaluate to.  direct is the value of line 248 on the same arguments, kept
\* beside the result for comparison.
SignatureReturn(stream, warns, valid, trick, direct) ==
    IF ~valid
    THEN [warned |-> warns, log |-> SignatureLog(warns, FALSE, NotCalled),
          outcome |-> "error", trick |-> NotCalled, result |-> << >>, direct |-> << >>]
    ELSE [warned |-> warns, log |-> SignatureLog(warns, TRUE, trick),
          outcome |-> "ok", trick |-> trick,
          result |-> SignatureResult(stream, trick, direct),
          direct |-> IF stream THEN Transpose01(direct) ELSE direct]

\* signature(path, depth, stream, basepoint, inverse, initial)
signature(path, depth, stream, basepoint, inverse, initial, env) ==
    SignatureReturn(stream,
        WarnsInitialWithoutBasepoint(basepoint, initial),
        signature_checkargs(path.val, depth, basepoint, initial),
        signature_batch_trick(path, depth, stream, basepoint, inverse, initial, env),
        SignatureFunction_forward(Transpose01(path.val), depth, stream, basepoint,
                                  inverse, initial))

\* ------------------------------------------------- extract_signature_term
\* tensor.narrow(dim=-1, start, length) of a (batch, channel) tensor: it
\* raises when the range leaves the dimension.
Narrow(t, start, length) ==
    IF start < 0 \/ length < 0 \/ \E b \in 1..Len(t) : start + length > Len(t[b])
    THEN [outcome |-> "RuntimeError", start |-> start, length |-> length, value |-> << >>]
    ELSE [outcome |-> "ok", start |-> start, length |-> length,
          value |-> Tup([b \in 1..Len(t) |-> SubSeq(t[b], start + 1, start + length)])]

\* extract_signature_term with the offset of the next term.
extract_signature_term_next(sigtensor, channels, depth) ==
    IF channels < 1
    THEN [outcome |-> "ValueError", start |-> 0, length |-> 0, value |-> << >>]
    ELSE Narrow(sigtensor, signature_channels(channels, depth), Pow(channels, depth))

\* extract_signature_term: start and length are 0-based, as narrow takes them.
extract_signature_term(sigtensor, channels, depth) ==
    IF channels < 1
    THEN [outcome |-> "ValueError", start |-> 0, length |-> 0, value |-> << >>]
    ELSE Narrow(sigtensor,
                IF depth = 1 THEN 0 ELSE signature_channels(channels, depth - 1),
                Pow(channels, depth))

\* ----------------------------------------------------------------- state
VARIABLES
    pc,        \* "ready": a call is about to be made; "done": it has returned
    args,      \* the arguments of the call, and what the environment answers
    warned,    \* whether warnings.warn was called
    log,       \* the events of the call, in order
    outcome,   \* "none", "ok" or "error" (an exception left the call)
    trick,     \* what _signature_batch_trick did
    result,    \* the tensor returned
    direct,    \* the tensor line 248 returns on the same arguments
    chen,      \* the two sides of Chen's identity
    ctx,       \* the autograd context of the last _SignatureFunction.forward
    grads,     \* the tuple the last _SignatureFunction.backward returned
    backward_log,  \* the backward invocations on ctx's saved state, in order
    term       \* what extract_signature_term did

callVars == << pc, args, warned, log, outcome, trick, result, direct, chen >>

gradVars == << ctx, grads, backward_log >>

vars == << callVars, gradVars, term >>

NoChen == [lhs |-> << >>, rhs |-> << >>]

\* No forward call has been made: nothing is saved.
NoCtx == [saved |-> "none"]

NoTerm == [outcome |-> "none"]

\* ---------------------------------------------------------------- inputs
Env(hc, mp) == [hardware_concurrency |-> hc, max_parallelism |-> mp]

BasepointFalse == [kind |-> "False"]
BasepointTrue == [kind |-> "True"]
Tensor(v) == [kind |-> "Tensor", val |-> v]

\* A fixed (batch, stream, channel) tensor of the given shape.
ShapePath(N, L, C) ==
    Tup([b \in 1..N |-> Tup([i \in 1..L |-> Tup([c \in 1..C |-> (i * (b + c)) % 4])])])

ShapeBasepoint(N, C) == Tup([b \in 1..N |-> Tup([c \in 1..C |-> b + c])])

ShapeInitial(N, K) == Tup([b \in 1..N |-> Tup([p \in 1..K |-> (b + p) % 2])])

\* The argument of a kind: a tensor of the right shape, or one row too many
\* (basepoint) or one entry too many (initial).
MkBasepoint(kind, N, C) ==
    IF kind = "Tensor" THEN Tensor(ShapeBasepoint(N, C))
    ELSE IF kind = "BadTensor" THEN Tensor(ShapeBasepoint(N + 1, C))
    ELSE [kind |-> kind]

MkInitial(kind, N, K) ==
    IF kind = "Tensor" THEN Tensor(ShapeInitial(N, K))
    ELSE IF kind = "BadTensor" THEN Tensor(ShapeInitial(N, K + 1))
    ELSE None

SignatureArgs(path, depth, stream, basepoint, inverse, initial, env) ==
    [op |-> "signature", path |-> path, depth |-> depth, stream |-> stream,
     basepoint |-> basepoint, inverse |-> inverse, initial |-> initial, env |-> env,
     k |-> 0]

\* Calls that differ in the shapes and kinds of their arguments, the wrong
\* ones included: depth 0, a one-point path, a basepoint or an initial of
\* the wrong shape.
ArgsCalls ==
    { SignatureArgs([val |-> ShapePath(N, L, C), is_cuda |-> dev, requires_grad |-> FALSE],
                    depth, stream, MkBasepoint(bk, N, C), FALSE,
                    MkInitial(ik, N, signature_channels(C, depth)), Env(4, 3)) :
        N \in 1..MaxBatch, L \in 1..MaxLen, C \in 1..2, depth \in 0..2,
        stream \in BOOLEAN, dev \in BOOLEAN,
        bk \in {"False", "True", "Tensor", "BadTensor"},
        ik \in {"None", "Tensor", "BadTensor"} }

\* Calls that differ in what decides the chunking.
ChunkCalls ==
    { SignatureArgs([val |-> ShapePath(N, L, 1), is_cuda |-> dev, requires_grad |-> rg],
                    1, stream, BasepointFalse, FALSE, None, Env(hc, mp)) :
        N \in 1..MaxBatch, L \in 2..MaxLen, stream \in BOOLEAN, dev \in BOOLEAN,
        rg \in BOOLEAN, hc \in {0, 1, 3, 4, 5, 6}, mp \in 1..3 }

InitCall(calls) ==
    /\ pc = "ready"
    /\ args \in calls
    /\ warned = FALSE
    /\ log = << >>
    /\ outcome = "none"
    /\ trick = NotCalled
    /\ result = << >>
    /\ direct = << >>
    /\ chen = NoChen
    /\ ctx = NoCtx
    /\ grads = << >>
    /\ backward_log = << >>
    /\ term = NoTerm

\* ---------------------------------------------------------------- actions
Signature ==
    /\ pc = "ready"
    /\ args.op = "signature"
    /\ \E r \in { signature(args.path, args.depth, args.stream, args.basepoint,
                             args.inverse, args.initial, args.env) } :
           /\ warned' = r.warned
           /\ log' = r.log
           /\ outcome' = r.outcome
           /\ trick' = r.trick
           /\ result' = r.result
           /\ direct' = r.direct
    /\ pc' = "done"
    /\ UNCHANGED << args, chen, gradVars, term >>

Init == InitCall(ArgsCalls)

Next == Signature

Spec == Init /\ [][Next]_vars

InitChunk == InitCall(ChunkCalls)

NextChunk == Signature

SpecChunk == InitChunk /\ [][NextChunk]_vars

\* ------------------------------------------------- calls that differ in values
\* A lattice walk in the plane: it starts at (1, 0) and step i adds the unit
\* vector of channel steps[i], so consecutive increments do not commute.
RECURSIVE Walk(_)
Walk(steps) ==
    IF steps = << >> THEN << << 1, 0 >> >>
    ELSE LET before == Walk(SubSeq(steps, 1, Len(steps) - 1))
             last   == before[Len(before)]
         IN  Append(before, IF steps[Len(steps)] = 1 THEN << last[1] + 1, last[2] >>
                            ELSE << last[1], last[2] + 1 >>)

\* Batch element b of the batch built on a walk: the walk shifted for odd b,
\* mirrored and shifted for even b.
WalkBatch(walk, N) ==
    Tup([b \in 1..N |-> Tup([i \in 1..Len(walk) |->
        IF b % 2 = 1 THEN << walk[i][1] + b - 1, walk[i][2] >>
        ELSE << walk[i][2], walk[i][1] + b >>])])

\* n steps along channel d
Run(d, n) == Tup([i \in 1..n |-> d])

\* The walks of L points made of three runs: along one channel, along the
\* other, and along the first again, each run possibly empty.
WalksOfLength(L) ==
    { Walk(Run(c[1], c[2]) \o Run(3 - c[1], c[3]) \o Run(c[1], L - 1 - c[2] - c[3])) :
        c \in { c \in {1, 2} \X (0..(L - 1)) \X (0..(L - 1)) : c[2] + c[3] <= L - 1 } }

Walks(lo, hi) == UNION { WalksOfLength(L) : L \in lo..hi }

ValueBasepoint(kind, N) ==
    IF kind = "Tensor" THEN Tensor(Tup([b \in 1..N |-> << b - 1, 2 >>])) ELSE [kind |-> kind]

\* The signature of a two-step path, different for each batch element.
ValueInitial(kind, N) ==
    IF kind = "Tensor"
    THEN Tensor(Tup([b \in 1..N |-> TensorMul(RestrictedExp(<< 1, 0 >>, 2, 2),
                                             RestrictedExp(<< 0, b >>, 2, 2), 2, 2)]))
    ELSE None

ValueCalls ==
    { SignatureArgs([val |-> WalkBatch(walk, N), is_cuda |-> TRUE, requires_grad |-> FALSE],
                    2, FALSE, ValueBasepoint(bk, N), inverse, ValueInitial(ik, N),
                    Env(4, 3)) :
        walk \in Walks(2, MaxWalk), N \in 1..MaxBatch, bk \in {"False", "True", "Tensor"},
        inverse \in BOOLEAN, ik \in {"None", "Tensor"} }

\* Chen's identity on path at the split point k (counted from 0, as in
\* P[:, :k+1] and P[:, k:]).
ChenArgs(path, depth, inverse, k, env) ==
    [op |-> "chen", path |-> path, depth |-> depth, stream |-> FALSE,
     basepoint |-> BasepointFalse, inverse |-> inverse, initial |-> None, env |-> env,
     k |-> k]

ChenCalls ==
    { c \in { ChenArgs([val |-> WalkBatch(walk, N), is_cuda |-> TRUE, requires_grad |-> FALSE],
                       2, inverse, k, Env(4, 3)) :
                walk \in Walks(2, MaxChen), N \in 1..MaxBatch, inverse \in BOOLEAN,
                k \in 1..(MaxChen - 1) } :
        c.k <= Len(c.path.val[1]) - 1 }

\* path[:, lo-1:hi] in Python's terms: stream positions lo..hi, from 1.
StreamSlice(path, lo, hi) ==
    [val |-> Tup([b \in 1..Len(path.val) |-> SubSeq(path.val[b], lo, hi)]),
     is_cuda |-> path.is_cuda, requires_grad |-> path.requires_grad]

\* path[:, k] for k counted from 0
StreamPoint(path, k) == Tup([b \in 1..Len(path.val) |-> path.val[b][k + 1]])

\* signature_combine(signature(P[:, :k+1]), signature(P[:, k:], basepoint=P[:, k]))
ChenCombined(path, depth, inverse, k, env) ==
    signature_combine(
        signature(StreamSlice(path, 1, k + 1), depth, FALSE, BasepointFalse, inverse,
                  None, env).result,
        signature(StreamSlice(path, k + 1, Len(path.val[1])), depth, FALSE,
                  Tensor(StreamPoint(path, k)), inverse, None, env).result,
        Len(path.val[1][1]), depth, inverse)

Chen ==
    /\ pc = "ready"
    /\ args.op = "chen"
    /\ chen' = [lhs |-> ChenCombined(args.path, args.depth, args.inverse, args.k, args.env),
                rhs |-> signature(args.path, args.depth, FALSE, BasepointFalse,
                                  args.inverse, None, args.env).result]
    /\ pc' = "done"
    /\ UNCHANGED << args, warned, log, outcome, trick, result, direct, gradVars, term >>

InitValue == InitCall(ValueCalls \cup ChenCalls)

NextValue == Signature \/ Chen

SpecValue == InitValue /\ [][NextValue]_vars

\* --------------------------------------------------- forward and backward
\* _SignatureFunction.apply on a path that requires grad, then backward
\* calls on its result, as the benchmark's setup and run make them.
GradArgs(path, depth, stream, basepoint, inverse, initial) ==
    [op |-> "grad", path |-> path, depth |-> depth, stream |-> stream,
     basepoint |-> basepoint, inverse |-> inverse, initial |-> initial,
     env |-> Env(1, 1), k |-> 0]

GradCalls ==
    { GradArgs([val |-> ShapePath(N, 3, 2), is_cuda |-> FALSE, requires_grad |-> TRUE],
               2, stream, MkBasepoint(bk, N, 2), inverse,
               MkInitial(ik, N, signature_channels(2, 2))) :
        N \in 1..MaxBatch, stream \in BOOLEAN, bk \in {"False", "True", "Tensor"},
        inverse \in BOOLEAN, ik \in {"None", "Tensor"} }

\* _SignatureFunction.forward, through apply: a fresh ctx with its own saved
\* tensors, which no backward has run on.
Forward ==
    /\ pc \in {"ready", "forwarded"}
    /\ args.op = "grad"
    /\ ctx' = SignatureFunction_ctx(Transpose01(args.path.val), args.depth, args.stream,
                                    args.basepoint, args.inverse, args.initial)
    /\ result' = ctx'.signature_
    /\ backward_log' = << >>
    /\ grads' = << >>
    /\ pc' = "forwarded"
    /\ UNCHANGED << args, warned, log, outcome, trick, direct, chen, term >>

\* A backward that leaves the saved tensors in place whatever retain_graph is.
BackwardKeepsSaved(retain_graph) ==
    /\ pc = "forwarded"
    /\ Len(backward_log) < MaxBackward
    /\ \E grad_basepoint \in ImplGrads(ctx.basepoint, "basepoint"),
          grad_initial \in ImplGrads(ctx.initial, "initial") :
          grads' = SignatureFunction_backward(ctx, Grad("path"), grad_basepoint, grad_initial)
    /\ backward_log' = Append(backward_log,
                              [retain_graph |-> retain_graph, outcome |-> "ok"])
    /\ UNCHANGED << ctx, callVars, term >>

\* result.backward(grad, retain_graph=...) while the saved tensors are held:
\* _SignatureFunction.backward reads ctx.saved_tensors and returns its
\* gradients.  The saved tensors stay when retain_graph is True, as in the
\* benchmark's run, and are released otherwise.  once_differentiable only
\* forbids differentiating backward itself.
Backward(retain_graph) ==
    /\ pc = "forwarded"
    /\ ctx.saved = "held"
    /\ Len(backward_log) < MaxBackward
    /\ \E grad_basepoint \in ImplGrads(ctx.basepoint, "basepoint"),
          grad_initial \in ImplGrads(ctx.initial, "initial") :
          grads' = SignatureFunction_backward(ctx, Grad("path"), grad_basepoint, grad_initial)
    /\ backward_log' = Append(backward_log,
                              [retain_graph |-> retain_graph, outcome |-> "ok"])
    /\ ctx' = IF retain_graph THEN ctx
              ELSE [ctx EXCEPT !.saved = "released", !.signature_ = << >>,
                               !.path_increments = << >>]
    /\ UNCHANGED << callVars, term >>

\* result.backward after the saved tensors were released: reading
\* ctx.saved_tensors raises and no gradient is returned.
BackwardReleased(retain_graph) ==
    /\ pc = "forwarded"
    /\ ctx.saved = "released"
    /\ Len(backward_log) < MaxBackward
    /\ backward_log' = Append(backward_log,
                              [retain_graph |-> retain_graph, outcome |-> "error"])
    /\ UNCHANGED << ctx, grads, callVars, term >>

InitGrad == InitCall(GradCalls)

NextGrad ==
    \/ Forward
    \/ \E retain_graph \in BOOLEAN : Backward(retain_graph)
    \/ \E retain_graph \in BOOLEAN : BackwardReleased(retain_graph)

SpecGrad == InitGrad /\ [][NextGrad]_vars

\* --------------------------------------------------- extract_signature_term
\* A signature tensor of one row whose entries are their own 0-based
\* positions, so that a slice shows the range it was taken from.
PositionTensor(K) == << Tup([p \in 1..K |-> p - 1]) >>

\* extract_signature_term(sigtensor, channels, depth) on a signature of
\* depth D; channels 0 and a depth beyond D are the calls that raise.
TermArgs(channels, D, depth) ==
    [op |-> "term", sigtensor |-> PositionTensor(signature_channels(channels, D)),
     channels |-> channels, D |-> D, depth |-> depth]

TermCalls ==
    { TermArgs(channels, D, depth) :
        channels \in 0..MaxChannels, D \in 1..MaxTermDepth, depth \in 1..MaxTermDepth }

ExtractTerm ==
    /\ pc = "ready"
    /\ args.op = "term"
    /\ term' = extract_signature_term(args.sigtensor, args.channels, args.depth)
    /\ pc' = "done"
    /\ UNCHANGED << args, warned, log, outcome, trick, result, direct, chen, gradVars >>

InitTerm == InitCall(TermCalls)

NextTerm == ExtractTerm

SpecTerm == InitTerm /\ [][NextTerm]_vars

CpuRequiresGradNeverChunks ==
    (pc = "done" /\ ~args.path.is_cuda /\ args.path.requires_grad) => ~trick.activated

\* C2, amended: on the CPU a call whose path does not require grad never
\* activates the batch trick: it returns without chunking and the result is
\* that of the direct call.
CpuWithoutGradNeverChunks ==
    (pc = "done" /\ ~args.path.is_cuda /\ ~args.path.requires_grad)
        => /\ ~trick.activated
           /\ trick.calls = << >>
           /\ log = << "checkargs", "batch_trick", "apply" >>
           /\ result = direct

\* A CPU call without grad that is large enough for the chunk count to
\* reach 2 had the gate let it through.
CpuWithoutGradNeverChunksWitness ==
    /\ pc = "done" /\ ~args.path.is_cuda /\ ~args.path.requires_grad
    /\ ~args.stream
    /\ args.env.hardware_concurrency >= 2 * Len(args.path.val)
    /\ args.env.max_parallelism >= 2
    /\ Len(args.path.val[1]) >= 6
    /\ ~trick.activated /\ trick.why = "cpu_no_grad"

\* C4: Chen's identity.  For every path P and split point k,
\* signature_combine(signature(P[:, :k+1]), signature(P[:, k:], basepoint =
\* P[:, k])) equals signature(P).
ChenIdentity ==
    (pc = "done" /\ args.op = "chen") => chen.lhs = chen.rhs

\* A split strictly inside a path whose signature is not symmetric in its
\* degree-2 block, so that the order of the product shows.
ChenIdentityWitness ==
    /\ pc = "done" /\ args.op = "chen"
    /\ args.k >= 2 /\ args.k <= Len(args.path.val[1]) - 3
    /\ chen.lhs = chen.rhs
    /\ chen.rhs[1][4] # chen.rhs[1][5]

\* C5: validation runs before any signature computation.  "checkargs" is
\* logged before every batch trick, apply or combine event, and a call whose
\* validation fails logs none of them and produces no result; a call that
\* succeeds has a result.
ValidationBeforeComputation ==
    pc = "done" =>
        /\ \A i \in 1..Len(log) :
              log[i] \in {"batch_trick", "apply", "combine"}
                  => \E j \in 1..(i - 1) : log[j] = "checkargs"
        /\ outcome \in {"ok", "error"}
        /\ outcome = "error" =>
              /\ \A i \in 1..Len(log) : log[i] \in {"warn", "checkargs"}
              /\ ~trick.activated /\ trick.calls = << >>
              /\ result = << >> /\ direct = << >>
        /\ outcome = "ok" => result # << >>

\* An initial of the wrong shape on a call that would otherwise be chunked.
ValidationBeforeComputationWitness ==
    /\ pc = "done" /\ outcome = "error"
    /\ args.depth >= 1 /\ args.path.is_cuda /\ ~args.stream
    /\ Len(args.path.val[1]) >= 6
    /\ args.basepoint.kind = "True" /\ IsTensor(args.initial)
    /\ log = << "checkargs" >>

\* C6: the warning is emitted exactly when initial is given and basepoint is
\* False, before validation, and it is no error: a warned call with
\* well-formed arguments returns its result as an unwarned one does.
WarningIffInitialWithoutBasepoint ==
    pc = "done" =>
        /\ warned <=> (args.initial # None /\ args.basepoint = BasepointFalse)
        /\ warned <=> (log # << >> /\ log[1] = "warn")
        /\ (/\ warned
            /\ args.depth >= 1
            /\ Len(args.path.val[1]) >= 2
            /\ args.initial = MkInitial("Tensor", Len(args.path.val),
                                        signature_channels(Len(args.path.val[1][1]),
                                                           args.depth)))
              => /\ outcome = "ok"
                 /\ result # << >>
                 /\ result = (IF trick.activated
                              THEN trick.result
                              ELSE direct)

\* A warned call that returns a chunked result.
WarningIffInitialWithoutBasepointWitness ==
    /\ pc = "done" /\ warned /\ outcome = "ok"
    /\ trick.activated /\ result = trick.result
    /\ log = << "warn", "checkargs", "batch_trick", "apply", "combine" >>

\* C9: the result of signature has shape (N, signature_channels(C, D))
\* when stream is False, chunked or not, and (N, L' - 1,
\* signature_channels(C, D)) when stream is True, L' being L without a
\* basepoint and L + 1 with one.
ResultShape ==
    (pc = "done" /\ outcome = "ok") =>
        LET N  == Len(args.path.val)
            L  == Len(args.path.val[1])
            C  == Len(args.path.val[1][1])
            K  == IF C = 1 THEN args.depth ELSE (Pow(C, args.depth + 1) - C) \div (C - 1)
            Lp == IF args.basepoint.kind = "False" THEN L ELSE L + 1
        IN  /\ Len(result) = N
            /\ \A b \in 1..N :
                 IF args.stream
                 THEN /\ Len(result[b]) = Lp - 1
                      /\ \A j \in 1..(Lp - 1) : Len(result[b][j]) = K
                 ELSE /\ Len(result[b]) = K
                      /\ \A p \in 1..K : result[b][p] \in Int

\* A chunked call on a batch of two whose chunk count differs from the batch
\* size, and of more than one channel.
ResultShapeWitness ==
    /\ pc = "done" /\ outcome = "ok"
    /\ trick.activated /\ trick.mult = 3 /\ trick.split.remainder = 0
    /\ Len(args.path.val) = 2 /\ Len(args.path.val[1][1]) = 2 /\ args.depth = 2
    /\ Len(trick.split.path_bulk) = 6
    /\ Len(result) = 2 /\ Len(result[1]) = 6

\* C10: whenever the batch trick activates, stream is False and the chunk
\* count m satisfies 2 <= m <= max_parallelism and m <= floor(stream_size /
\* 3); in stream mode, and whenever the computed m is below 2, it returns
\* nothing and the result is that of the direct call.
ChunkCountBounds ==
    pc = "done" =>
        /\ trick.activated =>
              /\ ~args.stream
              /\ 2 <= trick.mult
              /\ trick.mult <= args.env.max_parallelism
              /\ 3 * trick.mult <= Len(args.path.val[1])
        /\ (args.stream \/ trick.mult < 2) =>
              /\ ~trick.activated
              /\ trick.calls = << >>
              /\ result = direct
              /\ "apply" = log[Len(log)]
        /\ trick.why = "small" => trick.mult < 2

\* A CPU call chunked in three where the hardware concurrency, the stream
\* length and max_parallelism all allow exactly three.
ChunkCountBoundsWitness ==
    /\ pc = "done" /\ trick.activated /\ trick.mult = 3
    /\ ~args.path.is_cuda
    /\ args.env.max_parallelism = 3
    /\ Len(args.path.val[1]) = 9

\* C3 as stated: the saved state of one forward call is consumed by at most
\* one backward invocation; a second backward on it never runs.
SavedStateConsumedOnce ==
    Cardinality({ i \in 1..Len(backward_log) : backward_log[i].outcome = "ok" }) <= 1

\* C3, amended: the saved state of one forward call is released by the
\* first backward that does not retain the graph.  Every backward before
\* that one runs, however many there are; every backward after it fails;
\* and while the saved state is held it is the signature forward returned.
SavedStateReleasedOnce ==
    LET Releases(i) == backward_log[i].outcome = "ok" /\ ~backward_log[i].retain_graph
    IN  /\ \A i \in 1..Len(backward_log) :
              backward_log[i].outcome = "error"
                  <=> \E j \in 1..(i - 1) : Releases(j)
        /\ Cardinality({ i \in 1..Len(backward_log) : Releases(i) }) <= 1
        /\ pc = "forwarded" =>
              /\ ctx.saved = "released" <=> \E i \in 1..Len(backward_log) : Releases(i)
              /\ ctx.saved = "held" => ctx.signature_ = result

\* A forward followed by a backward that retains the graph, a backward that
\* does not, and one more backward, which fails.
SavedStateReleasedOnceWitness ==
    /\ Len(backward_log) = 3
    /\ backward_log[1] = [retain_graph |-> TRUE, outcome |-> "ok"]
    /\ backward_log[2] = [retain_graph |-> FALSE, outcome |-> "ok"]
    /\ backward_log[3].outcome = "error"
    /\ ctx.saved = "released"

\* C7: backward returns a gradient for basepoint only if forward's basepoint
\* was a tensor and a gradient for initial only if forward's initial was a
\* tensor; every gradient returned sits at the position of the forward
\* argument it belongs to (path, basepoint or initial), and the slots of
\* depth, stream and inverse are None.
BackwardGradientSlots ==
    grads # << >> =>
        /\ Len(grads) >= Len(ForwardArguments)
        /\ grads[1] = Grad("path")
        /\ \A i \in 1..Len(grads) :
              grads[i] # None =>
                  /\ i <= Len(ForwardArguments)
                  /\ ForwardArguments[i] \in {"path", "basepoint", "initial"}
                  /\ grads[i] = Grad(ForwardArguments[i])
        /\ grads[4] # None => IsTensor(args.basepoint)
        /\ grads[6] # None => IsTensor(args.initial)
        /\ grads[2] = None /\ grads[3] = None /\ grads[5] = None

\* A backward after a forward with basepoint=True and an initial tensor: the
\* basepoint's gradient is discarded and the initial's is returned.
BackwardGradientSlotsWitness ==
    /\ grads # << >>
    /\ args.basepoint = BasepointTrue /\ ctx.basepoint /\ ~ctx.basepoint_is_tensor
    /\ grads[4] = None
    /\ IsTensor(args.initial) /\ grads[6] = Grad("initial")

\* C8: for channels >= 1 and depth >= 1, extract_signature_term slices
\* [start, start + channels^depth) with start = channels + ... +
\* channels^(depth-1) (0 when depth = 1), and the slice ends at
\* signature_channels(channels, depth); on a signature of depth D the
\* slices of depths 1..D, one after the other, are exactly
\* [0, signature_channels(channels, D)), and a deeper term is not there to
\* slice.
TermSliceArithmetic ==
    (pc = "done" /\ args.op = "term" /\ args.channels >= 1) =>
        LET c == args.channels
            Geometric(k) == IF c = 1 THEN k ELSE (Pow(c, k + 1) - c) \div (c - 1)
        IN  /\ term.start = Geometric(args.depth - 1)
            /\ args.depth = 1 => term.start = 0
            /\ term.length = Pow(c, args.depth)
            /\ term.start + term.length = Geometric(args.depth)
            /\ signature_channels(c, args.depth) = Geometric(args.depth)
            /\ term.outcome = "ok" <=> args.depth <= args.D
            /\ term.outcome = "ok" =>
                  term.value = << [i \in 1..term.length |-> term.start + i - 1] >>
            /\ Flatten([k \in 1..args.D |->
                          extract_signature_term(args.sigtensor, c, k).value[1]])
                 = [p \in 1..Geometric(args.D) |-> p - 1]

\* The degree-3 term of a depth-4 signature over two channels: entries 6..13.
TermSliceArithmeticWitness ==
    /\ pc = "done" /\ args.op = "term"
    /\ args.channels = 2 /\ args.depth = 3 /\ args.D = 4
    /\ term.outcome = "ok" /\ term.start = 6 /\ term.length = 8
    /\ term.value[1][1] = 6 /\ term.value[1][8] = 13

\* C11 as stated: no call made while hardware_concurrency() is 0 takes the
\* chunked path.
NoConcurrencyNeverChunks ==
    (pc = "done" /\ args.env.hardware_concurrency = 0) => ~trick.activated

\* C11, amended: no call on a CPU path made while hardware_concurrency() is
\* 0 takes the chunked path; the result is that of the direct call.  (On
\* the GPU the query is not made and the chunker may activate.)
CpuNoConcurrencyNeverChunks ==
    (pc = "done" /\ args.env.hardware_concurrency = 0 /\ ~args.path.is_cuda)
        => /\ ~trick.activated
           /\ trick.calls = << >>
           /\ "apply" = log[Len(log)]
           /\ result = direct

\* A CPU call that requires grad and is long enough to be chunked in two,
\* stopped by the unknown hardware concurrency.
CpuNoConcurrencyNeverChunksWitness ==
    /\ pc = "done" /\ ~args.path.is_cuda /\ args.path.requires_grad
    /\ args.env.hardware_concurrency = 0
    /\ ~args.stream /\ args.env.max_parallelism >= 2 /\ Len(args.path.val[1]) >= 6
    /\ ~trick.activated /\ trick.why = "no_concurrency"

\* C12: in the chunker, for every batch element b, the basepoint of every
\* chunk after the first (row b*m + j of the flattened basepoints, j >= 1)
\* is the last point of chunk j - 1 of b; the remainder's basepoint is the
\* last point of the last bulk chunk, whatever the user's basepoint; and the
\* first chunk's basepoint is the user's tensor, zero for basepoint=True,
\* and the path's first point otherwise.
ChunkBasepoints ==
    (pc = "done" /\ args.op = "signature" /\ trick.activated) =>
        LET val == args.path.val
            m   == trick.mult
            r   == Len(val[1]) \div m
        IN  \A b \in 1..Len(val) :
              /\ \A j \in 2..m :
                    trick.split.basepoint[(b - 1) * m + j] = val[b][(j - 1) * r]
              /\ Len(val[1]) % m # 0 =>
                    trick.split.basepoint_remainder[b] = val[b][m * r]
              /\ trick.split.basepoint[(b - 1) * m + 1] =
                    (IF args.basepoint.kind = "Tensor" THEN args.basepoint.val[b]
                     ELSE IF args.basepoint.kind = "True" THEN << 0, 0 >>
                     ELSE val[b][1])

\* A batch of two split in three chunks and a remainder, with a basepoint
\* tensor that is not a point of the path.
ChunkBasepointsWitness ==
    /\ pc = "done" /\ args.op = "signature" /\ trick.activated
    /\ trick.mult = 3 /\ trick.split.remainder # 0
    /\ Len(args.path.val) = 2 /\ IsTensor(args.basepoint)
    /\ Len(trick.split.basepoint) = 6
    /\ trick.split.basepoint[5] = args.path.val[2][3]
    /\ trick.split.basepoint[4] = args.basepoint.val[2]
    /\ trick.split.basepoint_remainder[2] = args.path.val[2][9]

\* C13: whenever the chunker activates on a stream of length L with chunk
\* count m, there are m bulk chunks of floor(L / m) >= 3 points each and a
\* remainder chunk of L mod m < m points, present only when L mod m # 0;
\* the chunks of a batch element, in order, are its path (contiguous,
\* disjoint, every index once); and every forward sub-call has a chunk of at
\* least one point besides its basepoint.
ChunkGeometry ==
    (pc = "done" /\ args.op = "signature" /\ trick.activated) =>
        LET val == args.path.val
            N   == Len(val)
            L   == Len(val[1])
            m   == trick.mult
            sp  == trick.split
        IN  /\ sp.reduced_bulk_length * m + sp.remainder = L
            /\ sp.reduced_bulk_length >= 3
            /\ sp.remainder >= 0 /\ sp.remainder < m
            /\ Len(sp.path_bulk) = N * m
            /\ \A i \in 1..(N * m) : Len(sp.path_bulk[i]) = sp.reduced_bulk_length
            /\ \A b \in 1..N :
                  /\ Len(sp.path_remainder[b]) = sp.remainder
                  /\ Flatten([j \in 1..m |-> sp.path_bulk[(b - 1) * m + j]])
                       \o sp.path_remainder[b] = val[b]
            /\ trick.calls = (IF sp.remainder # 0
                              THEN << "apply", "apply", "combine" >>
                              ELSE << "apply", "combine" >>)
            /\ Len(trick.chunks) = (IF IsTensor(args.initial) THEN 1 ELSE 0) + m
                                     + (IF sp.remainder # 0 THEN 1 ELSE 0)
            /\ Len(sp.basepoint) = N * m
            /\ sp.remainder # 0 => Len(sp.basepoint_remainder) = N

\* Ten points in three chunks of three and a remainder of one.
ChunkGeometryWitness ==
    /\ pc = "done" /\ args.op = "signature" /\ trick.activated
    /\ Len(args.path.val[1]) = 10 /\ trick.mult = 3
    /\ trick.split.reduced_bulk_length = 3 /\ trick.split.remainder = 1
    /\ trick.calls = << "apply", "apply", "combine" >>
    /\ trick.split.path_remainder[1] = << args.path.val[1][10] >>

\* C14 as stated: an initial is left-multiplied onto the chunked result for
\* every setting of inverse: the result is initial times the combination of
\* the chunk signatures.
InitialLeftMultiplied ==
    (pc = "done" /\ args.op = "signature" /\ trick.activated /\ IsTensor(args.initial)) =>
        \A b \in 1..Len(result) :
            result[b] = TensorMul(args.initial.val[b],
                                  multi_signature_combine(Tail(trick.chunks), 2, args.depth,
                                                          args.inverse)[b],
                                  2, args.depth)

\* C14, amended: the list the chunker passes to multi_signature_combine has
\* initial, if present, as its first element, followed by the chunk
\* signatures, for every setting of inverse; the list is reversed before
\* combining iff inverse is True; so initial is the leftmost factor of the
\* result when inverse is False and the rightmost when inverse is True.
InitialFirstInChunks ==
    (pc = "done" /\ args.op = "signature" /\ trick.activated) =>
        LET rest == multi_signature_combine(
                        IF IsTensor(args.initial) THEN Tail(trick.chunks) ELSE trick.chunks,
                        2, args.depth, args.inverse)
        IN  /\ IsTensor(args.initial) => trick.chunks[1] = args.initial.val
            /\ Len(trick.chunks) = (IF IsTensor(args.initial) THEN 1 ELSE 0) + trick.mult
                                     + (IF trick.split.remainder # 0 THEN 1 ELSE 0)
            /\ result = signature_combine_forward(
                            IF args.inverse THEN Reverse(trick.chunks) ELSE trick.chunks,
                            2, args.depth)
            /\ \A b \in 1..Len(result) :
                  result[b] = IF ~IsTensor(args.initial) THEN rest[b]
                              ELSE IF args.inverse
                                   THEN TensorMul(rest[b], args.initial.val[b], 2, args.depth)
                                   ELSE TensorMul(args.initial.val[b], rest[b], 2, args.depth)

\* An inverse chunked call with an initial whose result is not the one with
\* initial on the left.
InitialFirstInChunksWitness ==
    /\ pc = "done" /\ args.op = "signature" /\ trick.activated
    /\ args.inverse /\ IsTensor(args.initial)
    /\ trick.chunks[1] = args.initial.val
    /\ result[1] # TensorMul(args.initial.val[1],
                             multi_signature_combine(Tail(trick.chunks), 2, args.depth,
                                                     TRUE)[1],
                             2, args.depth)

=============================================================================
